---- MODULE Spec2Model ----
(***************************************************************************)
(* High-voltage feedback calibration of the DMF control board              *)
(* (dmf_control_board/calibrate/hv_attenuator.py, oscope.py).              *)
(*                                                                         *)
(* Three entry points are modelled, each as a run of the state machine:    *)
(*   "sweep"     resistor_max_actuation_readings(control_board,            *)
(*               frequencies, oscope_reading_func)                         *)
(*   "find_good" a direct call find_good(control_board, actuation_steps,   *)
(*               resistor_index, start_index, end_index)                   *)
(*   "fit"       fit_feedback_params(calibration, max_resistor_readings)   *)
(*               followed by update_control_board_calibration(             *)
(*               control_board, fitted_params)                             *)
(*                                                                         *)
(* Voltages are exact integers.  In a sweep the unit is                    *)
(* 1 / (200 * gain * (NumSteps - 1)) volt, so that 0.005 V, 0.1 V, the     *)
(* 0.8 margin and every point of the 100-point linspace are whole numbers. *)
(* Python indices are 0-based; sequences here are 1-based, so Python's     *)
(* a[i] is a[i + 1].                                                       *)
(***************************************************************************)
EXTENDS Integers, Sequences, FiniteSets

VARIABLES
    entry,                  \* which entry point this run executes
    pc,                     \* position of the running function
    hw,                     \* the physical circuit behind control_board
    control_board,          \* the device proxy's settings
    calls,                  \* device / instrument calls made so far, in order
    frequencies,            \* argument of resistor_max_actuation_readings
    actuation_steps,        \* the voltage ladder
    conditions,             \* the conditions DataFrame, in construction order
    pending,                \* group keys groupby().apply() has still to visit
    x,                      \* the group max_actuation_reading is applied to
    resistor_index,         \* find_good's target resistor
    start_index,            \* find_good's argument
    end_index,              \* find_good's argument
    lower,                  \* find_good's local
    upper,                  \* find_good's local
    data,                   \* the last batch measure_board_rms returned
    actuation_index,        \* the index find_good returned
    rows,                   \* frames max_actuation_reading has returned so far
    result,                 \* what the entry point gave back to its caller
    max_resistor_readings,  \* argument of fit_feedback_params
    fit_pending,            \* resistor groups fit_resistor_params has still to see
    solves,                 \* one record per optimize.leastsq call
    feedback_params,        \* rows fit_resistor_params has returned so far
    update_pending          \* rows update_control_board_params has still to see

vars == <<entry, pc, hw, control_board, calls, frequencies, actuation_steps,
          conditions, pending, x, resistor_index, start_index, end_index,
          lower, upper, data, actuation_index, rows, result,
          max_resistor_readings, fit_pending, solves, feedback_params,
          update_pending>>

sweepVars == <<frequencies, conditions, pending, x, rows>>
searchVars == <<resistor_index, start_index, end_index, lower, upper, data,
                actuation_index>>
fitVars == <<max_resistor_readings, fit_pending, solves, feedback_params,
             update_pending>>

(***************************************************************************)
(* Program constants and the bounds of the model.                          *)
(***************************************************************************)
\* measure_board_rms(control_board, n_samples=10, ...)
n_samples == 10
\* np.linspace(0.005, max_actuation_V, num=100)
NumSteps == 100
\* length of the ladder handed to a direct find_good call
SearchLen == 8
\* longest frequency list handed to the sweep
MaxFreqs == 2

\* amplifier gains of the circuits considered (oscope volts per waveform volt)
Gains == {80, 160, 240}
\* control_board.max_waveform_voltage of the boards considered, in volts
MaxWaveformVolts == {1, 2}
\* ladder positions at which the circuit may switch to the next resistor;
\* NumSteps stands for "never within the ladder"
SatIndexes == {0, 1, 40, 70, 99, NumSteps}
\* frequencies a caller may ask for
FreqValues == {100, 1000}
\* the resistor bank
Resistors == {0, 1, 2}

Last(s) == s[Len(s)]

Max(S) == CHOOSE m \in S : \A n \in S : n <= m

RECURSIVE SeqSum(_)
SeqSum(s) == IF s = <<>> THEN 0 ELSE Head(s) + SeqSum(Tail(s))

\* Sequences over S of length 1 .. n.
SeqsUpTo(S, n) == UNION {[1..k -> S] : k \in 1..n}

\* One logged call.  arg is the numeric argument (0 when there is none); ok is
\* FALSE when the call raised instead of returning.
Call(op, arg) == [op |-> op, arg |-> arg, ok |-> TRUE]
Raised(op, arg) == [op |-> op, arg |-> arg, ok |-> FALSE]

NoResult == [status |-> "none", table |-> <<>>]

(***************************************************************************)
(* The circuit and the device proxy (external collaborators, modelled by   *)
(* the interface the calibration code uses).                               *)
(***************************************************************************)
\* The feedback resistor the auto-ranging circuit has in circuit at waveform
\* voltage v: resistor 2 below h.sat1, resistor 1 below h.sat0, resistor 0 from
\* there on (a non-increasing step function of the voltage).
ActiveResistor(h, v) ==
    IF v < h.sat1 THEN 2 ELSE IF v < h.sat0 THEN 1 ELSE 0

\* What the trusted instrument reads: the amplifier's output.
AmplifierOutput(h, board) == h.gain * board.voltage

\* The representation of 0.005 V on circuit h (the unit is chosen so that
\* the linspace below is exact).
Volts005(h) == h.gain * (NumSteps - 1)

\* control_board.max_waveform_voltage: h.max_volts volts = 200 * 0.005 V each.
BoardMaxWaveformVoltage(h) == h.max_volts * 200 * Volts005(h)

\* DataFrame rows of measure_board_rms: one per sample.  On a glitching
\* circuit the first sample of every batch carries the sentinel resistor -1.
measure_board_rms(board, h) ==
    [k \in 1..n_samples |->
        IF h.glitch /\ k = 1
        THEN [board_measured_V |-> 0, divider_resistor_index |-> -1]
        ELSE [board_measured_V |-> board.voltage,
              divider_resistor_index |-> ActiveResistor(h, board.voltage)]]

(***************************************************************************)
(* find_good                                                               *)
(***************************************************************************)
\* data['divider resistor index'] >= 0
ValidSample(s) == s.divider_resistor_index >= 0

valid_data(d) == SelectSeq(d, ValidSample)

\* (valid_data['divider resistor index'] < resistor_index).sum()
OtherResistor(d, target) ==
    \E k \in 1..Len(valid_data(d)) :
        valid_data(d)[k].divider_resistor_index < target

\* while lower < upper - 1
LoopCond(lo, up) == lo < up - 1

\* MidIndex with the offset forgotten: index = (upper - lower) / 2
MidIndexNoOffset(lo, up) == (up - lo) \div 2

\* index = lower + (upper - lower) / 2     (Python 2 integer division)
MidIndex(lo, up) == lo + (up - lo) \div 2

\* actuation_steps[i] is defined (numpy raises IndexError past the end; the
\* indices considered are never negative)
InRange(steps, i) == i >= 0 /\ i < Len(steps)

\* RetainedVoltageIndex taking the other end of the interval
RetainedVoltageIndexUpper(lo, up) == up

\* control_board.set_waveform_voltage(actuation_steps[lower])
RetainedVoltageIndex(lo, up) == lo

\* ReturnedIndex taking the other end of the interval
ReturnedIndexUpper(lo, up) == up

\* return lower, data
ReturnedIndex(lo, up) == lo

(***************************************************************************)
(* resistor_max_actuation_readings                                         *)
(***************************************************************************)
\* np.linspace(start, stop, num); the inputs used make the division exact.
linspace(start, stop, num) ==
    [i \in 1..num |-> start + ((i - 1) * (stop - start)) \div (num - 1)]

\* target_voltage = 0.1
target_voltage(h) == 20 * Volts005(h)

\* estimated_amplifier_gain .. actuation_steps
ActuationSteps(oscope_rms, h) ==
    LET estimated_amplifier_gain == oscope_rms \div target_voltage(h)
        max_post_gain_V == (8 * BoardMaxWaveformVoltage(h)) \div 10
        max_actuation_V == max_post_gain_V \div estimated_amplifier_gain
    IN  linspace(Volts005(h), max_actuation_V, NumSteps)

\* [[r, f] for r in range(2, -1, -1) for f in frequencies]
Conditions(freqs) ==
    [k \in 1..(3 * Len(freqs)) |->
        [resistor_index |-> 2 - ((k - 1) \div Len(freqs)),
         frequency |-> freqs[((k - 1) % Len(freqs)) + 1]]]

KeyLess(a, b) ==
    \/ a.resistor_index < b.resistor_index
    \/ a.resistor_index = b.resistor_index /\ a.frequency < b.frequency

RECURSIVE SortKeys(_)
SortKeys(S) ==
    IF S = {} THEN <<>>
    ELSE LET m == CHOOSE k \in S : \A o \in S \ {k} : KeyLess(k, o)
         IN  <<m>> \o SortKeys(S \ {m})

\* conditions.groupby(['resistor index', 'frequency']): one group per distinct
\* key, visited in sorted key order (groupby's default sort=True).
GroupKeys(conds) == SortKeys({conds[k] : k \in 1..Len(conds)})

\* data.loc[data['divider resistor index'] >= 0, 'board measured V'].mean():
\* kept as sum and count; count 0 is NaN.
Mean(samples) ==
    [sum |-> SeqSum([k \in 1..Len(samples) |-> samples[k].board_measured_V]),
     count |-> Len(samples)]

board_measured_rms(d) == Mean(valid_data(d))

NoGroup == [resistor_index |-> -1, frequency |-> 0]

\* the voltage at which the circuit leaves a resistor, given as a position t
\* of ladder steps (t = Len(steps): above every step)
SatVoltage(steps, t) ==
    IF t < Len(steps) THEN steps[t + 1]
    ELSE Max({steps[k] : k \in 1..Len(steps)}) + 1

Circuit(g, m, steps, t1, t0, glitch) ==
    [gain |-> g, max_volts |-> m, sat1 |-> SatVoltage(steps, t1),
     sat0 |-> SatVoltage(steps, t0), glitch |-> glitch]

Board(h) ==
    [voltage |-> 0, frequency |-> 0, auto_adjust_amplifier_gain |-> TRUE,
     amplifier_gain |-> h.gain,
     max_waveform_voltage |-> BoardMaxWaveformVoltage(h),
     series_resistor_index |-> 0,
     series_resistance |-> [r \in Resistors |-> 0],
     series_capacitance |-> [r \in Resistors |-> 0]]

\* the ladder a sweep on a circuit of gain g and maximum m volts will build
SweepLadder(g, m) ==
    linspace(g * (NumSteps - 1), 160 * m * (NumSteps - 1), NumSteps)

\* the ladder handed to a direct find_good call: SearchLen increasing steps
SearchLadder == linspace(SearchLen - 1, SearchLen * (SearchLen - 1), SearchLen)

InitSweep ==
    /\ entry = "sweep"
    /\ pc = "setup"
    /\ \E g \in Gains, m \in MaxWaveformVolts, t1 \in SatIndexes,
          t0 \in SatIndexes, glitch \in BOOLEAN :
          /\ hw = Circuit(g, m, SweepLadder(g, m), t1, t0, glitch)
          /\ hw.sat1 <= hw.sat0
    /\ control_board = Board(hw)
    /\ calls = <<>>
    /\ frequencies \in SeqsUpTo(FreqValues, MaxFreqs)
    /\ actuation_steps = <<>>
    /\ conditions = <<>>
    /\ pending = <<>>
    /\ x = NoGroup
    /\ resistor_index = 0 /\ start_index = 0 /\ end_index = 0
    /\ lower = 0 /\ upper = 0 /\ data = <<>> /\ actuation_index = 0
    /\ rows = <<>>
    /\ result = NoResult
    /\ max_resistor_readings = <<>> /\ fit_pending = <<>> /\ solves = <<>>
    /\ feedback_params = <<>> /\ update_pending = <<>>

InitFindGood ==
    /\ entry = "find_good"
    /\ pc = "find_good"
    /\ \E t1 \in 0..SearchLen, t0 \in 0..SearchLen, glitch \in BOOLEAN :
          /\ t1 <= t0
          /\ hw = Circuit(1, 1, SearchLadder, t1, t0, glitch)
    /\ control_board = Board(hw)
    /\ calls = <<>>
    /\ frequencies = <<>>
    /\ actuation_steps = SearchLadder
    /\ conditions = <<>>
    /\ pending = <<>>
    /\ x = NoGroup
    /\ resistor_index \in Resistors
    /\ start_index \in 0..(SearchLen + 1)
    /\ end_index \in 0..(SearchLen + 1)
    /\ lower = start_index
    /\ upper = end_index
    /\ data = <<>> /\ actuation_index = 0
    /\ rows = <<>>
    /\ result = NoResult
    /\ max_resistor_readings = <<>> /\ fit_pending = <<>> /\ solves = <<>>
    /\ feedback_params = <<>> /\ update_pending = <<>>

(***************************************************************************)
(* Actions of find_good (lines 34-51).                                     *)
(***************************************************************************)
\* one iteration of the while loop
FindGoodProbe ==
    /\ pc = "find_good"
    /\ LoopCond(lower, upper)
    /\ LET index == MidIndex(lower, upper) IN
        /\ InRange(actuation_steps, index)
        /\ LET board == [control_board EXCEPT !.voltage = actuation_steps[index + 1]]
               batch == measure_board_rms(board, hw)
           IN  /\ control_board' = board
               /\ calls' = calls \o <<Call("set_waveform_voltage", board.voltage),
                                      Call("measure_impedance", n_samples)>>
               /\ data' = batch
               /\ IF OtherResistor(batch, resistor_index)
                  THEN upper' = index /\ lower' = lower
                  ELSE lower' = index /\ upper' = upper
    /\ UNCHANGED <<entry, pc, hw, actuation_steps, resistor_index, start_index,
                   end_index, actuation_index, result, sweepVars, fitVars>>

\* actuation_steps[index] past the end of the ladder: IndexError
FindGoodProbeIndexError ==
    /\ pc = "find_good"
    /\ LoopCond(lower, upper)
    /\ ~InRange(actuation_steps, MidIndex(lower, upper))
    /\ pc' = "raised"
    /\ result' = [status |-> "raised", table |-> <<>>]
    /\ UNCHANGED <<entry, hw, control_board, calls, actuation_steps, searchVars,
                   sweepVars, fitVars>>

\* the loop has ended: set the voltage of the returned index, measure, return
FindGoodReturn ==
    /\ pc = "find_good"
    /\ ~LoopCond(lower, upper)
    /\ LET index == RetainedVoltageIndex(lower, upper) IN
        /\ InRange(actuation_steps, index)
        /\ LET board == [control_board EXCEPT !.voltage = actuation_steps[index + 1]]
           IN  /\ control_board' = board
               /\ calls' = calls \o <<Call("set_waveform_voltage", board.voltage),
                                      Call("measure_impedance", n_samples)>>
               /\ data' = measure_board_rms(board, hw)
    /\ actuation_index' = ReturnedIndex(lower, upper)
    /\ IF entry = "sweep"
       THEN pc' = "read" /\ result' = result
       ELSE pc' = "done" /\ result' = [status |-> "returned", table |-> <<>>]
    /\ UNCHANGED <<entry, hw, actuation_steps, resistor_index, start_index,
                   end_index, lower, upper, sweepVars, fitVars>>

\* actuation_steps[lower] past the end of the ladder: IndexError
FindGoodReturnIndexError ==
    /\ pc = "find_good"
    /\ ~LoopCond(lower, upper)
    /\ ~InRange(actuation_steps, RetainedVoltageIndex(lower, upper))
    /\ pc' = "raised"
    /\ result' = [status |-> "raised", table |-> <<>>]
    /\ UNCHANGED <<entry, hw, control_board, calls, actuation_steps, searchVars,
                   sweepVars, fitVars>>

(***************************************************************************)
(* Actions of resistor_max_actuation_readings (lines 54-116).              *)
(***************************************************************************)
\* lines 67-74: zero the voltage, fix the gain at 1, apply the 0.1 V probe
SweepSetup ==
    /\ pc = "setup"
    /\ control_board' = [control_board EXCEPT
                            !.voltage = target_voltage(hw),
                            !.auto_adjust_amplifier_gain = FALSE,
                            !.amplifier_gain = 1]
    /\ calls' = calls \o <<Call("set_waveform_voltage", 0),
                           Call("set_waveform_voltage", target_voltage(hw))>>
    /\ pc' = "estimate"
    /\ UNCHANGED <<entry, hw, actuation_steps, result, sweepVars, searchVars,
                   fitVars>>

\* lines 75-87: the reference reading returns; build the ladder and the grid
SweepEstimateGain ==
    /\ pc = "estimate"
    /\ LET oscope_rms == AmplifierOutput(hw, control_board) IN
        /\ calls' = Append(calls, Call("oscope_reading_func", oscope_rms))
        /\ actuation_steps' = ActuationSteps(oscope_rms, hw)
    /\ conditions' = Conditions(frequencies)
    /\ pending' = GroupKeys(conditions')
    /\ pc' = "apply"
    /\ UNCHANGED <<entry, hw, control_board, frequencies, x, rows, result,
                   searchVars, fitVars>>

\* line 75: the reference reading raises; nothing catches it
SweepEstimateGainRaise ==
    /\ pc = "estimate"
    /\ calls' = Append(calls, Raised("oscope_reading_func", 0))
    /\ pc' = "raised"
    /\ result' = [status |-> "raised", table |-> <<>>]
    /\ UNCHANGED <<entry, hw, control_board, actuation_steps, sweepVars,
                   searchVars, fitVars>>

\* lines 97-102 and 34-35: apply() enters max_actuation_reading for the next
\* group: set the frequency and call find_good over the whole ladder
MaxActuationBegin ==
    /\ pc = "apply"
    /\ pending # <<>>
    /\ x' = Head(pending)
    /\ pending' = Tail(pending)
    /\ control_board' = [control_board EXCEPT !.frequency = x'.frequency]
    /\ calls' = Append(calls, Call("set_waveform_frequency", x'.frequency))
    /\ resistor_index' = x'.resistor_index
    /\ start_index' = 0
    /\ end_index' = Len(actuation_steps) - 1
    /\ lower' = start_index'
    /\ upper' = end_index'
    /\ pc' = "find_good"
    /\ UNCHANGED <<entry, hw, actuation_steps, frequencies, conditions, rows,
                   data, actuation_index, result, fitVars>>

\* lines 103-111: mean of the valid samples, one reference reading, one row
MaxActuationRead ==
    /\ pc = "read"
    /\ LET oscope_rms == AmplifierOutput(hw, control_board) IN
        /\ calls' = Append(calls, Call("oscope_reading_func", oscope_rms))
        /\ rows' = Append(rows, [resistor_index |-> x.resistor_index,
                                 frequency |-> x.frequency,
                                 actuation_index |-> actuation_index,
                                 board_measured_V |-> board_measured_rms(data),
                                 oscope_measured_V |-> oscope_rms])
    /\ pc' = "apply"
    /\ UNCHANGED <<entry, hw, control_board, actuation_steps, frequencies,
                   conditions, pending, x, result, searchVars, fitVars>>

\* MaxActuationReadRaise with the error caught and the rows measured so far
\* handed back
MaxActuationReadSalvage ==
    /\ pc = "read"
    /\ calls' = Append(calls, Raised("oscope_reading_func", 0))
    /\ pc' = "done"
    /\ result' = [status |-> "returned", table |-> rows]
    /\ UNCHANGED <<entry, hw, control_board, actuation_steps, sweepVars,
                   searchVars, fitVars>>

\* line 105: the reference reading raises inside apply(); it propagates out of
\* max_actuation_reading, apply() and resistor_max_actuation_readings
MaxActuationReadRaise ==
    /\ pc = "read"
    /\ calls' = Append(calls, Raised("oscope_reading_func", 0))
    /\ pc' = "raised"
    /\ result' = [status |-> "raised", table |-> <<>>]
    /\ UNCHANGED <<entry, hw, control_board, actuation_steps, sweepVars,
                   searchVars, fitVars>>

\* lines 115-116: every group has been applied; the frames are concatenated
SweepReturn ==
    /\ pc = "apply"
    /\ pending = <<>>
    /\ result' = [status |-> "returned", table |-> rows]
    /\ pc' = "done"
    /\ UNCHANGED <<entry, hw, control_board, calls, actuation_steps, sweepVars,
                   searchVars, fitVars>>

(***************************************************************************)
(* fit_feedback_params (lines 119-160) and                                 *)
(* update_control_board_calibration (lines 230-246).                       *)
(***************************************************************************)
\* the calibration object: the priors of the three feedback resistors
\* (capacitances in pF, resistances in kOhm), indexed by resistor index + 1
calibration == [C_hv |-> <<11, 12, 13>>, R_hv |-> <<2100, 2200, 2300>>]

\* p0 = [calibration.C_hv[resistor_index], calibration.R_hv[resistor_index]]
InitialGuess(r) == <<calibration.C_hv[r + 1], calibration.R_hv[r + 1]>>

\* the lambda e: compute_from_transfer_function(..., R2=p[0], C2=p[1], ...)
ModelR2(p) == p[1]
ModelC2(p) == p[2]

\* optimize.leastsq(e, p0, args=...) returns (x, ier): the final parameter
\* vector and a status, 1..4 when a solution was found.  The solver is outside
\* the repository; the outcomes considered are: it stays at p0, or it moves,
\* to either sign, and it reports convergence (1) or not (5).
leastsq(p0) ==
    {[x |-> p0, ier |-> 1],
     [x |-> p0, ier |-> 5],
     [x |-> <<p0[1] + 1, p0[2] + 1>>, ier |-> 1],
     [x |-> <<-(p0[1] + 1), -(p0[2] + 1)>>, ier |-> 1],
     [x |-> <<p0[1] + 2, p0[2] + 2>>, ier |-> 5]}

Converged(ier) == ier \in 1..4

\* pd.DataFrame([p0 + p1.tolist()],
\*              columns=['original C', 'original R', 'fitted C', 'fitted R'])
FittedRow(r, p0, p1) ==
    [resistor_index |-> r, original_C |-> p0[1], original_R |-> p0[2],
     fitted_C |-> p1[1], fitted_R |-> p1[2]]

Abs(v) == IF v < 0 THEN -v ELSE v

RECURSIVE SortInts(_)
SortInts(S) ==
    IF S = {} THEN <<>>
    ELSE LET m == CHOOSE k \in S : \A o \in S : k <= o
         IN  <<m>> \o SortInts(S \ {m})

\* max_resistor_readings[max_resistor_readings['resistor index'] >= 0]
\*     .groupby(['resistor index']): the groups, in sorted key order
ResistorGroups(readings) ==
    SortInts({readings[k].resistor_index : k \in
                {j \in 1..Len(readings) : readings[j].resistor_index >= 0}})

\* a readings table with one row per resistor of rs (in the order given) and
\* frequency of FreqValues
ReadingsTable(rs) ==
    LET fs == SortInts(FreqValues) IN
    [k \in 1..(Len(rs) * Len(fs)) |->
        LET r == rs[((k - 1) \div Len(fs)) + 1] IN
        [resistor_index |-> r,
         frequency |-> fs[((k - 1) % Len(fs)) + 1],
         actuation_index |-> 0,
         board_measured_V |-> [sum |-> 10 * (r + 2), count |-> n_samples],
         oscope_measured_V |-> 100]]

InitFit ==
    /\ entry = "fit"
    /\ pc = "fit"
    /\ hw = Circuit(1, 1, SearchLadder, 0, 0, FALSE)
    /\ control_board = Board(hw)
    /\ calls = <<>>
    /\ frequencies = <<>> /\ actuation_steps = <<>> /\ conditions = <<>>
    /\ pending = <<>> /\ x = NoGroup
    /\ resistor_index = 0 /\ start_index = 0 /\ end_index = 0
    /\ lower = 0 /\ upper = 0 /\ data = <<>> /\ actuation_index = 0
    /\ rows = <<>>
    /\ result = NoResult
    /\ \E S \in SUBSET (Resistors \cup {-1}) :
          /\ S \cap Resistors # {}
          /\ max_resistor_readings = ReadingsTable(SortInts(S))
    /\ fit_pending = ResistorGroups(max_resistor_readings)
    /\ solves = <<>>
    /\ feedback_params = <<>>
    /\ update_pending = <<>>

\* lines 142-153: apply() calls fit_resistor_params on the next group
FitResistorParams ==
    /\ pc = "fit"
    /\ fit_pending # <<>>
    /\ LET r == Head(fit_pending)
           p0 == InitialGuess(r)
       IN  \E out \in leastsq(p0) :
            /\ solves' = Append(solves,
                    [resistor_index |-> r,
                     R2_start |-> ModelR2(p0), C2_start |-> ModelC2(p0),
                     R2_final |-> ModelR2(out.x), C2_final |-> ModelC2(out.x),
                     ier |-> out.ier])
            /\ feedback_params' = Append(feedback_params, FittedRow(r, p0, out.x))
    /\ fit_pending' = Tail(fit_pending)
    /\ UNCHANGED <<entry, pc, hw, control_board, calls, actuation_steps, result,
                   max_resistor_readings, update_pending, sweepVars, searchVars>>

\* lines 155-160: the per-resistor frames are stacked and returned; the caller
\* hands the table to update_control_board_calibration
FitReturn ==
    /\ pc = "fit"
    /\ fit_pending = <<>>
    /\ result' = [status |-> "returned", table |-> feedback_params]
    /\ update_pending' = feedback_params
    /\ pc' = "update"
    /\ UNCHANGED <<entry, hw, control_board, calls, actuation_steps,
                   max_resistor_readings, fit_pending, solves, feedback_params,
                   sweepVars, searchVars>>

\* the three device calls of update_control_board_params for row
UpdateCalls(row) ==
    <<Call("set_series_resistor_index", row.resistor_index),
      Call("set_series_resistance", Abs(row.fitted_R)),
      Call("set_series_capacitance", Abs(row.fitted_C))>>

\* the device after the first n of those calls
UpdatedBoard(board, row, n) ==
    [board EXCEPT
        !.series_resistor_index =
            IF n >= 1 THEN row.resistor_index ELSE @,
        !.series_resistance =
            IF n >= 2 THEN [@ EXCEPT ![row.resistor_index] = Abs(row.fitted_R)]
            ELSE @,
        !.series_capacitance =
            IF n >= 3 THEN [@ EXCEPT ![row.resistor_index] = Abs(row.fitted_C)]
            ELSE @]

\* UpdateControlBoardParams with the reconnect inside the per-row function
UpdateControlBoardParamsReconnect ==
    /\ pc = "update"
    /\ update_pending # <<>>
    /\ LET row == Head(update_pending) IN
        /\ control_board' = UpdatedBoard(control_board, row, 3)
        /\ calls' = calls \o UpdateCalls(row) \o <<Call("connect", 0)>>
    /\ update_pending' = Tail(update_pending)
    /\ UNCHANGED <<entry, pc, hw, actuation_steps, result, max_resistor_readings,
                   fit_pending, solves, feedback_params, sweepVars, searchVars>>

\* lines 234-238, 242-243: apply() calls update_control_board_params on the
\* next row and all three device calls return
UpdateControlBoardParams ==
    /\ pc = "update"
    /\ update_pending # <<>>
    /\ LET row == Head(update_pending) IN
        /\ control_board' = UpdatedBoard(control_board, row, 3)
        /\ calls' = calls \o UpdateCalls(row)
    /\ update_pending' = Tail(update_pending)
    /\ UNCHANGED <<entry, pc, hw, actuation_steps, result, max_resistor_readings,
                   fit_pending, solves, feedback_params, sweepVars, searchVars>>

\* lines 236-238: the n-th device call of the row raises; nothing catches it
UpdateControlBoardParamsRaise ==
    /\ pc = "update"
    /\ update_pending # <<>>
    /\ \E n \in 1..3 :
        LET row == Head(update_pending)
            c == UpdateCalls(row)[n]
        IN  /\ control_board' = UpdatedBoard(control_board, row, n - 1)
            /\ calls' = calls \o SubSeq(UpdateCalls(row), 1, n - 1)
                              \o <<Raised(c.op, c.arg)>>
    /\ pc' = "raised"
    /\ result' = [status |-> "raised", table |-> <<>>]
    /\ UNCHANGED <<entry, hw, actuation_steps, max_resistor_readings,
                   fit_pending, solves, feedback_params, update_pending,
                   sweepVars, searchVars>>

\* line 246: control_board.connect() reloads the calibration
UpdateConnect ==
    /\ pc = "update"
    /\ update_pending = <<>>
    /\ calls' = Append(calls, Call("connect", 0))
    /\ pc' = "done"
    /\ UNCHANGED <<entry, hw, control_board, actuation_steps, result, fitVars,
                   sweepVars, searchVars>>

Init == InitSweep \/ InitFindGood \/ InitFit

Next ==
    \/ FindGoodProbe
    \/ FindGoodProbeIndexError
    \/ FindGoodReturn
    \/ FindGoodReturnIndexError
    \/ SweepSetup
    \/ SweepEstimateGain
    \/ SweepEstimateGainRaise
    \/ MaxActuationBegin
    \/ MaxActuationRead
    \/ MaxActuationReadRaise
    \/ SweepReturn
    \/ FitResistorParams
    \/ FitReturn
    \/ UpdateControlBoardParams
    \/ UpdateControlBoardParamsRaise
    \/ UpdateConnect

Spec == Init /\ [][Next]_vars

(***************************************************************************)
(* Observations used by the properties below.                              *)
(***************************************************************************)
CallIndexes(op) == {k \in 1..Len(calls) : calls[k].op = op}

OkCallIndexes(op) == {k \in CallIndexes(op) : calls[k].ok}

\* the position in calls at which the current find_good call began
SearchStart ==
    IF CallIndexes("set_waveform_frequency") = {} THEN 0
    ELSE Max(CallIndexes("set_waveform_frequency"))

\* batches measured since the current find_good call began
BatchCount ==
    Cardinality({k \in CallIndexes("measure_impedance") : k > SearchStart})

RECURSIVE CeilLog2(_)
CeilLog2(n) == IF n <= 1 THEN 0 ELSE 1 + CeilLog2((n + 1) \div 2)

LadderIncreasing(steps) ==
    \A i \in 1..(Len(steps) - 1) : steps[i] < steps[i + 1]

\* at ladder index i a resistor below the target is in circuit
Superseded(i) ==
    ActiveResistor(hw, actuation_steps[i + 1]) < resistor_index

\* the precondition of the binary search
SearchPre ==
    /\ start_index < end_index
    /\ InRange(actuation_steps, start_index)
    /\ InRange(actuation_steps, end_index)
    /\ LadderIncreasing(actuation_steps)
    /\ ~Superseded(start_index)
    /\ Superseded(end_index)

\* the last index before a lower-indexed resistor takes over
LastBeforeTakeover ==
    CHOOSE i \in start_index..(end_index - 1) :
        ~Superseded(i) /\ Superseded(i + 1)

SearchReturned ==
    \/ entry = "find_good" /\ pc = "done"
    \/ entry = "sweep" /\ pc = "read"

(***************************************************************************)
(* C1.  On a circuit whose active resistor is a non-increasing step        *)
(* function of the ladder index, find_good called with low < high, no      *)
(* resistor below the target at ladder[low] and one at ladder[high], stays *)
(* inside [low, high], halves the interval with every probe, so it ends    *)
(* after at most ceil(log2(high - low)) probes, and returns the last index *)
(* before a lower-indexed resistor takes over.                             *)
(***************************************************************************)
C1_FindGoodBinarySearch ==
    SearchPre =>
        /\ pc = "find_good" =>
            /\ start_index <= lower /\ lower < upper /\ upper <= end_index
            /\ BatchCount + CeilLog2(upper - lower)
                   <= CeilLog2(end_index - start_index)
        /\ pc = "raised" => entry = "sweep"
        /\ SearchReturned =>
            /\ actuation_index = LastBeforeTakeover
            /\ BatchCount - 1 <= CeilLog2(end_index - start_index)

\* the sweep's search of [0, 99] for resistor 1 on the circuit that switches at
\* 40 and 70 has returned index 69 after 7 probes
C1_Witness ==
    /\ entry = "sweep" /\ pc = "read" /\ SearchPre
    /\ resistor_index = 1 /\ start_index = 0 /\ end_index = NumSteps - 1
    /\ Superseded(70) /\ ~Superseded(69)
    /\ actuation_index = 69
    /\ BatchCount - 1 = 7

C3_VisitedHighestToLowest ==
    entry = "sweep" =>
        /\ rows # <<>> => rows[1].resistor_index = 2
        /\ \A i, j \in 1..Len(rows) :
              i < j => rows[i].resistor_index >= rows[j].resistor_index

(***************************************************************************)
(* C4 (as claimed).  Every row the sweep emits carries the requested       *)
(* resistor, and its board_measured_V is the mean over exactly those       *)
(* samples of the retained batch whose resistor index is non-negative and  *)
(* equal to the target resistor.  Stated for the sweeps whose ladder is     *)
(* strictly increasing, so that a violation does not rest on C5.           *)
(***************************************************************************)
OnTargetSample(s) ==
    /\ s.divider_resistor_index >= 0
    /\ s.divider_resistor_index = x.resistor_index

C4_MeanOverTargetResistorOnly ==
    (/\ entry = "sweep" /\ pc = "apply" /\ rows # <<>>
     /\ LadderIncreasing(actuation_steps)) =>
        /\ Last(rows).resistor_index = x.resistor_index
        /\ Last(rows).board_measured_V = Mean(SelectSeq(data, OnTargetSample))

(***************************************************************************)
(* C5 (as claimed).  Whatever the reference reading at the 0.1 V probe     *)
(* step and the board's maximum waveform voltage, the 100-point ladder the *)
(* sweep builds is strictly increasing.                                    *)
(***************************************************************************)
C5_LadderStrictlyIncreasing ==
    (entry = "sweep" /\ actuation_steps # <<>>) =>
        /\ Len(actuation_steps) = NumSteps
        /\ LadderIncreasing(actuation_steps)

(***************************************************************************)
(* C6 (as claimed).  find_good invoked with low >= high, or with an index  *)
(* outside the ladder, ends in an error: it neither sets the device        *)
(* voltage nor returns an (index, batch) result.                           *)
(***************************************************************************)
C6_InvalidRangeIsFatal ==
    (/\ entry = "find_good"
     /\ pc # "find_good"
     /\ \/ start_index >= end_index
        \/ ~InRange(actuation_steps, start_index)
        \/ ~InRange(actuation_steps, end_index)) =>
        /\ pc = "raised"
        /\ result.status = "raised"
        /\ CallIndexes("set_waveform_voltage") = {}

(***************************************************************************)
(* C6 (amended).  find_good invoked with low >= high makes no probe.  If   *)
(* low is an index of the ladder it sets the device voltage to ladder[low],*)
(* measures one batch and returns (low, batch); it ends in an error, with  *)
(* no device call made and nothing returned, only when low is past the end *)
(* of the ladder.                                                          *)
(***************************************************************************)
C6_EmptyRangeReturnsLow ==
    (entry = "find_good" /\ start_index >= end_index) =>
        /\ pc # "find_good" =>
            IF InRange(actuation_steps, start_index)
            THEN /\ pc = "done"
                 /\ result.status = "returned"
                 /\ actuation_index = start_index
                 /\ data = measure_board_rms(control_board, hw)
                 /\ control_board.voltage = actuation_steps[start_index + 1]
                 /\ calls = <<Call("set_waveform_voltage",
                                   actuation_steps[start_index + 1]),
                              Call("measure_impedance", n_samples)>>
            ELSE /\ pc = "raised"
                 /\ result.status = "raised"
                 /\ calls = <<>>
        /\ pc = "find_good" => calls = <<>>

\* a call with low > high, both inside the ladder, has returned
C6_Witness ==
    /\ entry = "find_good" /\ pc = "done"
    /\ start_index > end_index
    /\ InRange(actuation_steps, start_index)
    /\ actuation_index = start_index
    /\ Len(calls) = 2

FitReturned == entry = "fit" /\ pc \in {"update", "done"}

RowsOf(table, r) == {k \in 1..Len(table) : table[k].resistor_index = r}

Flagged(row) == "converged" \in DOMAIN row /\ ~row.converged

C8_NonConvergenceReported ==
    (FitReturned /\ result.status = "returned") =>
        \A k \in 1..Len(solves) :
            LET mine == RowsOf(result.table, solves[k].resistor_index) IN
            IF Converged(solves[k].ier)
            THEN \E m \in mine : ~Flagged(result.table[m])
            ELSE \A m \in mine : Flagged(result.table[m])

(***************************************************************************)
(* C9 (as claimed).  For every resistor the solver starts with the model's *)
(* R2 at the prior resistance and C2 at the prior capacitance, and the     *)
(* fitted resistance reported is the solver's final R2, the fitted         *)
(* capacitance its final C2.                                               *)
(***************************************************************************)
C9_ParameterRolesConsistent ==
    entry = "fit" =>
        \A k \in 1..Len(solves) :
            LET r == solves[k].resistor_index IN
            /\ solves[k].R2_start = calibration.R_hv[r + 1]
            /\ solves[k].C2_start = calibration.C_hv[r + 1]
            /\ feedback_params[k].fitted_R = solves[k].R2_final
            /\ feedback_params[k].fitted_C = solves[k].C2_final

(***************************************************************************)
(* C10.  In every condition the retained batch and the reference reading   *)
(* of the row are taken under one device state: the frequency is set to    *)
(* the condition's frequency before the first probe, the last voltage set  *)
(* before the retained batch is ladder[returned index], and nothing is set *)
(* between the retained batch and the reference reading.                   *)
(***************************************************************************)
C10_RowMeasuredUnderOneDeviceState ==
    (entry = "sweep" /\ pc = "apply" /\ rows # <<>>) =>
        LET n == Len(calls)
            row == Last(rows)
            f == SearchStart
            v == actuation_steps[row.actuation_index + 1]
        IN  /\ calls[n] = Call("oscope_reading_func", row.oscope_measured_V)
            /\ calls[n - 1] = Call("measure_impedance", n_samples)
            /\ calls[n - 2] = Call("set_waveform_voltage", v)
            /\ calls[f] = Call("set_waveform_frequency", row.frequency)
            /\ calls[f - 1].op = "oscope_reading_func"
            /\ f < n - 2
            /\ \A k \in (f + 1)..(n - 1) :
                  calls[k].op \in {"set_waveform_voltage", "measure_impedance"}
            /\ control_board.frequency = row.frequency
            /\ control_board.voltage = v
            /\ data = measure_board_rms(control_board, hw)
            /\ row.oscope_measured_V = AmplifierOutput(hw, control_board)

\* a second row has been emitted for a search that ended inside the ladder
C10_Witness ==
    /\ entry = "sweep" /\ pc = "apply" /\ Len(rows) = 2
    /\ Last(rows).actuation_index \in 1..(NumSteps - 3)
    /\ Last(rows).frequency = control_board.frequency
====
